---- MODULE Spec2Model ----
(***************************************************************************)
(* PublishableApiKeyService (services/publishable-api-key.ts): lifecycle   *)
(* of publishable API keys against a transactional record store and a      *)
(* transactional event bus.                                                *)
(*                                                                         *)
(* Every service call is a process.  A step of a call is the code it runs  *)
(* without suspending: from the call, or from the resumption after an      *)
(* `await`, up to the next `await` on the store or the bus, whose request  *)
(* is part of the step.  Calls interleave at exactly the points where the  *)
(* JavaScript event loop can switch between them; what a call read before  *)
(* it was suspended may be stale when it resumes.                          *)
(***************************************************************************)
EXTENDS Integers, Sequences, FiniteSets, TLC

\* ---------------------------------------------------------------- bounds
MaxClock == 2         \* instants the clock can hand out to `new Date()`
MaxCalls == 4         \* calls made in one behaviour
MaxListKeys == 19     \* rows in the table the listing starts from

\* the universe of the lifecycle specification: two ids the id generator
\* can hand out, two calls in flight together, two principals
Ids == {1, 2}
Procs == {1, 2}
Users == {"u1", "u2"}
Dates == 1..MaxClock

\* ------------------------------------------------------------ null values
NoId == 0             \* `undefined` id of an entity that was never inserted
NullDate == 0         \* SQL NULL in the revoked_at column
NullUser == "null"    \* SQL NULL in the created_by / revoked_by columns

\* ------------------------------------------------------------ event names
CREATED == "publishable_api_key.created"
REVOKED == "publishable_api_key.revoked"

\* ----------------------------------------------------------------- errors
NOT_FOUND == "not_found"
NOT_ALLOWED == "not_allowed"
STORE_FAILURE == "store_failure"   \* the store or the bus rejected a call
OK == "ok"
NONE == "none"

VARIABLES
  store,      \* committed rows of the table: [set of ids -> entity]
  events,     \* committed event log: sequence of [name, id]
  now,        \* the current instant of the wall clock
  calls,      \* the number of calls made so far
  pc,         \* per call: the await its handler resumes from next
  argId,      \* per call: the publishableApiKeyId argument
  argUser,    \* per call: the context.loggedInUserId argument
  got,        \* per call: what the store's read gave, until the call resumes
  pubKey,     \* per call: the local entity object of the handler
  txWrites,   \* per call: rows written in its open transaction
  txEvents,   \* per call: events emitted in its open transaction
  ret         \* the call that returned in the last step, with its outcome

vars == <<store, events, now, calls, pc, argId, argUser, got, pubKey, txWrites,
          txEvents, ret>>

\* --------------------------------------------------------------- entities
Entity(id, cb, ra, rb) ==
  [id |-> id, created_by |-> cb, revoked_at |-> ra, revoked_by |-> rb]

NoKey == Entity(NoId, NullUser, NullDate, NullUser)

Event(name, id) == [name |-> name, id |-> id]

\* a returned call: operation, arguments, outcome, and what it returned
\* (an entity, a boolean, or a page with its count)
Return(o, id, user, kind, key, valid, list, count) ==
  [op |-> o, id |-> id, user |-> user, kind |-> kind, key |-> key,
   valid |-> valid, list |-> list, count |-> count]

\* the selector a listAndCount was called with: none, or created_by = user
SelectorOf(user) ==
  [field |-> IF user = NullUser THEN NONE ELSE "created_by",
   value |-> user]

NoReturn == Return(NONE, NoId, NullUser, NONE, NoKey, FALSE, << >>, 0)

\* the result of a read of the store: rows, and the count for a listing
Rows(list, count) == [list |-> list, count |-> count]
NoRows == Rows(<< >>, 0)

\* writes of a transaction: repo.save(row) and repo.remove(row)
Save(row) == [kind |-> "save", row |-> row]
Remove(row) == [kind |-> "remove", row |-> row]

Throw(o, id, user, kind) ==
  Return(o, id, user, kind, NoKey, FALSE, << >>, 0)

\* a create that drops the creator
RepoCreateAnonymous(user) == Entity(NoId, NullUser, NullDate, NullUser)

\* repo.create({created_by}): a fresh entity object, not inserted; its id
\* is generated on insert, revoked_at / revoked_by are nullable columns.
RepoCreate(user) == Entity(NoId, user, NullDate, NullUser)

\* ids already taken by a row or by an insert of an open transaction
UsedIds == DOMAIN store \cup
           UNION {{w.row.id : w \in txWrites[q]} : q \in Procs}

\* the ids the insert can generate: unique among rows and open inserts
GenerateIds == Ids \ UsedIds

\* repo.findOneWithRelations by id: the committed row, or no row
FindOne(st, id) == IF id \in DOMAIN st THEN <<st[id]>> ELSE << >>

\* a retrieve_ without the not-found check: no row is returned as an empty
\* entity
retrieve_Unchecked(rows) ==
  [kind |-> OK, key |-> IF rows = << >> THEN NoKey ELSE rows[1]]

\* retrieve_ after its await: the row the store gave, or NotFound
retrieve_(rows) ==
  IF rows = << >>
    THEN [kind |-> NOT_FOUND, key |-> NoKey]
    ELSE [kind |-> OK, key |-> rows[1]]

\* revoke without its guard
AlreadyRevokedNever(key) == FALSE

\* revoke's guard: `if (pubKey.revoked_at)`
AlreadyRevoked(key) == key.revoked_at # NullDate

\* revoke that sets the date and forgets the revoker
MarkRevokedAtOnly(key, date, user) == [key EXCEPT !.revoked_at = date]

\* revoke that also takes over the row: created_by becomes the revoker
MarkRevokedTakesOver(key, date, user) ==
  [key EXCEPT !.revoked_at = date, !.revoked_by = user, !.created_by = user]

\* revoke that records the creator as the revoker
MarkRevokedByCreator(key, date, user) ==
  [key EXCEPT !.revoked_at = date, !.revoked_by = key.created_by]

\* revoke's mutation of the local entity
MarkRevoked(key, date, user) ==
  [key EXCEPT !.revoked_at = date, !.revoked_by = user]

\* isValid with the test inverted
IsActiveInverted(key) == key.revoked_by # NullUser

\* isValid's test: `pubKey.revoked_by === null`
IsActive(key) == key.revoked_by = NullUser

\* writes of a transaction applied to the table: a save inserts or
\* updates the row of that id, a remove deletes it
ApplyWrites(st, ws) ==
  LET saved == {w.row : w \in {x \in ws : x.kind = "save"}}
      removed == {w.row.id : w \in {x \in ws : x.kind = "remove"}}
  IN [i \in (DOMAIN st \cup {r.id : r \in saved}) \ removed |->
        IF \E r \in saved : r.id = i
          THEN CHOOSE r \in saved : r.id = i
          ELSE st[i]]

\* ----------------------------------------------------------------- listing
\* selectors of listAndCount: no condition, or equality on created_by
NoSelector == [field |-> NONE, value |-> NullUser]
Selectors == {NoSelector} \cup
             {[field |-> "created_by", value |-> u] : u \in Users}

Matches(key, sel) ==
  sel.field = NONE \/ (sel.field = "created_by" /\ key.created_by = sel.value)

\* a default config with a page of 21
DefaultConfigTake21 == [skip |-> 0, take |-> 21]

\* listAndCount's default config
DefaultConfig == [skip |-> 0, take |-> 20]

Min(a, b) == IF a < b THEN a ELSE b

RECURSIVE InIdOrder(_)
InIdOrder(S) ==
  IF S = {} THEN << >>
  ELSE LET m == CHOOSE x \in S : \A y \in S : x <= y
       IN <<m>> \o InIdOrder(S \ {m})

\* buildQuery + repo.findAndCount: the page [skip, skip + take) of the
\* matching rows, and the number of all matching rows
FindAndCount(st, sel, cfg) ==
  LET ids == InIdOrder({i \in DOMAIN st : Matches(st[i], sel)})
      page == SubSeq(ids, cfg.skip + 1, Min(cfg.skip + cfg.take, Len(ids)))
  IN Rows([k \in 1..Len(page) |-> st[page[k]]], Len(ids))

\* ------------------------------------------------------------------- Init
Idle ==
  /\ pc = [p \in Procs |-> "idle"]
  /\ argId = [p \in Procs |-> NoId]
  /\ argUser = [p \in Procs |-> NullUser]
  /\ got = [p \in Procs |-> NoRows]
  /\ pubKey = [p \in Procs |-> NoKey]
  /\ txWrites = [p \in Procs |-> {}]
  /\ txEvents = [p \in Procs |-> << >>]
  /\ ret = NoReturn

Init ==
  /\ store = << >>
  /\ events = << >>
  /\ now = 1
  /\ calls = 0
  /\ Idle

\* a call starts: its arguments are bound
Call(p, id, user) ==
  /\ pc[p] = "idle"
  /\ calls < MaxCalls
  /\ calls' = calls + 1
  /\ argId' = [argId EXCEPT ![p] = id]
  /\ argUser' = [argUser EXCEPT ![p] = user]

\* a call returns or throws: its frame and transaction state are dropped
Finish(p, r) ==
  /\ pc' = [pc EXCEPT ![p] = "idle"]
  /\ argId' = [argId EXCEPT ![p] = NoId]
  /\ argUser' = [argUser EXCEPT ![p] = NullUser]
  /\ got' = [got EXCEPT ![p] = NoRows]
  /\ pubKey' = [pubKey EXCEPT ![p] = NoKey]
  /\ txWrites' = [txWrites EXCEPT ![p] = {}]
  /\ txEvents' = [txEvents EXCEPT ![p] = << >>]
  /\ ret' = r

\* ----------------------------------------------------------------- create
\* the event of create: emit(CREATED, {id: publishableApiKey.id})
CreatedEvent(key) == Event(CREATED, key.id)

\* create() up to its first await: atomicPhase_ opens a transaction,
\* repo.create builds the entity, the CREATED event is emitted inside the
\* transaction
CreateEmit(p, user) ==
  /\ Call(p, NoId, user)
  /\ Cardinality({q \in Procs : pc[q] = "c_save"}) < Cardinality(GenerateIds)
  /\ pc' = [pc EXCEPT ![p] = "c_save"]
  /\ pubKey' = [pubKey EXCEPT ![p] = RepoCreate(user)]
  /\ txEvents' = [txEvents EXCEPT
                    ![p] = Append(@, CreatedEvent(RepoCreate(user)))]
  /\ ret' = NoReturn
  /\ UNCHANGED <<store, events, now, got, txWrites>>

\* the bus rejects the emit of create: the transaction rolls back
CreateEmitFail(p, user) ==
  /\ pc[p] = "idle"
  /\ calls < MaxCalls
  /\ calls' = calls + 1
  /\ Finish(p, Throw("create", NoId, user, STORE_FAILURE))
  /\ UNCHANGED <<store, events, now>>

\* a save that reuses the first id for every new row
InsertedRowFirstId(key, id) == [key EXCEPT !.id = 1]

\* the row create writes: `repo.save(publishableApiKey)`, whose insert
\* generates the id
InsertedRow(key, id) == [key EXCEPT !.id = id]

\* create() resumes from the emit: `await repo.save(publishableApiKey)`
\* inside the transaction
CreateSave(p) ==
  /\ pc[p] = "c_save"
  /\ \E id \in GenerateIds :
       /\ pubKey' = [pubKey EXCEPT ![p] = InsertedRow(pubKey[p], id)]
       /\ txWrites' = [txWrites EXCEPT
                         ![p] = @ \cup {Save(InsertedRow(pubKey[p], id))}]
  /\ pc' = [pc EXCEPT ![p] = "c_commit"]
  /\ ret' = NoReturn
  /\ UNCHANGED <<store, events, now, calls, argId, argUser, got, txEvents>>

\* ----------------------------------------------------------------- revoke
\* the event of revoke: emit(REVOKED, {id: pubKey.id})
RevokedEvent(key) == Event(REVOKED, key.id)

\* a revoke whose read also sees the rows that open transactions have saved
\* and not yet committed
RevokeRetrieveDirty(p, id, user) ==
  /\ Call(p, id, user)
  /\ got' = [got EXCEPT
               ![p] = Rows(FindOne(ApplyWrites(store,
                             UNION {txWrites[q] : q \in Procs}), id), 0)]
  /\ pc' = [pc EXCEPT ![p] = "r_check"]
  /\ ret' = NoReturn
  /\ UNCHANGED <<store, events, now, pubKey, txWrites, txEvents>>

\* revoke() up to `await this.retrieve(id)`: atomicPhase_ opens a
\* transaction and the store reads the committed row; the handler is
\* suspended until the read is delivered
RevokeRetrieve(p, id, user) ==
  /\ Call(p, id, user)
  /\ got' = [got EXCEPT ![p] = Rows(FindOne(store, id), 0)]
  /\ pc' = [pc EXCEPT ![p] = "r_check"]
  /\ ret' = NoReturn
  /\ UNCHANGED <<store, events, now, pubKey, txWrites, txEvents>>

\* a revoke that deletes the row instead of saving it
RevokeWritesRemove(key) == {Remove(key)}

\* the writes of revoke: `await repo.save(pubKey)`
RevokeWrites(key) == {Save(key)}

\* revoke() resumes with the row it read: retrieve_'s not-found check, the
\* already-revoked check, `new Date()` (the clock does not run backwards),
\* the two assignments and the call of repo.save inside the transaction
RevokeSave(p) ==
  /\ pc[p] = "r_check"
  /\ LET r == retrieve_(got[p].list) IN
       IF r.kind # OK
         THEN /\ Finish(p, Throw("revoke", argId[p], argUser[p], r.kind))
              /\ UNCHANGED now
         ELSE IF AlreadyRevoked(r.key)
           THEN /\ Finish(p, Throw("revoke", argId[p], argUser[p],
                                   NOT_ALLOWED))
                /\ UNCHANGED now
           ELSE \E d \in Dates :
                  /\ d >= now
                  /\ now' = d
                  /\ pubKey' = [pubKey EXCEPT
                                  ![p] = MarkRevoked(r.key, d, argUser[p])]
                  /\ txWrites' = [txWrites EXCEPT
                        ![p] = @ \cup
                               RevokeWrites(MarkRevoked(r.key, d, argUser[p]))]
                  /\ got' = [got EXCEPT ![p] = NoRows]
                  /\ pc' = [pc EXCEPT ![p] = "r_emit"]
                  /\ ret' = NoReturn
                  /\ UNCHANGED <<argId, argUser, txEvents>>
  /\ UNCHANGED <<store, events, calls>>

\* an emit that bypasses the transaction: the event is published at once
RevokeEmitDirect(p) ==
  /\ pc[p] = "r_emit"
  /\ events' = Append(events, RevokedEvent(pubKey[p]))
  /\ pc' = [pc EXCEPT ![p] = "r_commit"]
  /\ ret' = NoReturn
  /\ UNCHANGED <<store, now, calls, argId, argUser, got, pubKey, txWrites,
               txEvents>>

\* revoke() resumes from the save: emit(REVOKED, ...) through
\* eventBusService_.withTransaction(manager), the event joins the
\* transaction
RevokeEmit(p) ==
  /\ pc[p] = "r_emit"
  /\ txEvents' = [txEvents EXCEPT ![p] = Append(@, RevokedEvent(pubKey[p]))]
  /\ pc' = [pc EXCEPT ![p] = "r_commit"]
  /\ ret' = NoReturn
  /\ UNCHANGED <<store, events, now, calls, argId, argUser, got, pubKey,
               txWrites>>

\* ------------------------------------------------------------ atomicPhase_
\* the operation of the call in flight
OpOf(p) ==
  CASE pc[p] \in {"c_save", "c_commit"} -> "create"
    [] pc[p] \in {"r_check", "r_emit", "r_commit"} -> "revoke"
    [] pc[p] = "q_return" -> "retrieve"
    [] pc[p] = "v_return" -> "isValid"
    [] pc[p] = "l_return" -> "listAndCount"
    [] OTHER -> NONE

\* the work returned: rows and events of the transaction become visible;
\* create returns the saved entity, revoke returns nothing
Commit(p) ==
  /\ pc[p] \in {"c_commit", "r_commit"}
  /\ store' = ApplyWrites(store, txWrites[p])
  /\ events' = events \o txEvents[p]
  /\ Finish(p, Return(OpOf(p), argId[p], argUser[p], OK,
                      IF OpOf(p) = "create" THEN pubKey[p] ELSE NoKey,
                      FALSE, << >>, 0))
  /\ UNCHANGED <<now, calls>>

\* the store or the bus rejects the awaited call (a read, save, emit or
\* commit): the handler throws, an open transaction rolls back
Fail(p) ==
  /\ pc[p] # "idle"
  /\ Finish(p, Throw(OpOf(p), argId[p], argUser[p], STORE_FAILURE))
  /\ UNCHANGED <<store, events, now, calls>>

\* ------------------------------------------------------------------ reads
\* a read-only call up to its await: the store performs the read
Read(p, id, user, rows, at) ==
  /\ Call(p, id, user)
  /\ got' = [got EXCEPT ![p] = rows]
  /\ pc' = [pc EXCEPT ![p] = at]
  /\ ret' = NoReturn
  /\ UNCHANGED <<store, events, now, pubKey, txWrites, txEvents>>

\* retrieve(id) up to `await repo.findOneWithRelations`
Retrieve(p, id) == Read(p, id, NullUser, Rows(FindOne(store, id), 0), "q_return")

\* retrieve(id) resumes: not-found check, return of the row it read
RetrieveReturn(p) ==
  /\ pc[p] = "q_return"
  /\ LET r == retrieve_(got[p].list) IN
       Finish(p, Return("retrieve", argId[p], NullUser, r.kind, r.key, FALSE,
                        << >>, 0))
  /\ UNCHANGED <<store, events, now, calls>>

\* isValid(id) up to `await this.retrieve(id)`
IsValid(p, id) == Read(p, id, NullUser, Rows(FindOne(store, id), 0), "v_return")

\* isValid(id) resumes: not-found check, `pubKey.revoked_by === null`
IsValidReturn(p) ==
  /\ pc[p] = "v_return"
  /\ LET r == retrieve_(got[p].list) IN
       Finish(p, Return("isValid", argId[p], NullUser, r.kind, NoKey,
                        r.kind = OK /\ IsActive(r.key), << >>, 0))
  /\ UNCHANGED <<store, events, now, calls>>

\* listAndCount(selector) with the default config, up to
\* `await pubKeyRepo.findAndCount(query)`
ListAndCount(p, sel) ==
  Read(p, NoId, sel.value, FindAndCount(store, sel, DefaultConfig), "l_return")

\* listAndCount resumes: the page and the count are returned as read
ListAndCountReturn(p) ==
  /\ pc[p] = "l_return"
  /\ Finish(p, Return("listAndCount", NoId, argUser[p], OK, NoKey, FALSE,
                      got[p].list, got[p].count))
  /\ UNCHANGED <<store, events, now, calls>>

\* the calls that write: create and revoke, with their commit or failure
Write ==
  \/ \E p \in Procs, u \in Users : CreateEmit(p, u)
  \/ \E p \in Procs, u \in Users : CreateEmitFail(p, u)
  \/ \E p \in Procs : CreateSave(p)
  \/ \E p \in Procs, i \in Ids, u \in Users : RevokeRetrieve(p, i, u)
  \/ \E p \in Procs : RevokeSave(p)
  \/ \E p \in Procs : RevokeEmit(p)
  \/ \E p \in Procs : Commit(p)
  \/ \E p \in Procs : Fail(p)

Next ==
  \/ Write
  \/ \E p \in Procs, i \in Ids : Retrieve(p, i)
  \/ \E p \in Procs : RetrieveReturn(p)
  \/ \E p \in Procs, i \in Ids : IsValid(p, i)
  \/ \E p \in Procs : IsValidReturn(p)
  \/ \E p \in Procs, s \in Selectors : ListAndCount(p, s)
  \/ \E p \in Procs : ListAndCountReturn(p)

Spec == Init /\ [][Next]_vars

\* ------------------------------------------------- listing specification
\* a table of n active rows next to the ids create can generate, created by
\* u1 and u2 in turns; creates fill the default page and then exceed it
ListStore(n) ==
  [i \in {j + Cardinality(Ids) : j \in 1..n} |->
     Entity(i, IF i % 2 = 0 THEN "u1" ELSE "u2", NullDate, NullUser)]

InitList ==
  /\ store = ListStore(MaxListKeys)
  /\ events = << >>
  /\ now = 1
  /\ calls = 0
  /\ Idle

\* listings of this table while creates and revokes run
NextList ==
  \/ Write
  \/ \E p \in Procs, s \in Selectors : ListAndCount(p, s)
  \/ \E p \in Procs : ListAndCountReturn(p)

SpecList == InitList /\ [][NextList]_vars

\* ================================================================ claims
Revoked(st, i) == i \in DOMAIN st /\ st[i].revoked_at # NullDate
Active(st, i) == i \in DOMAIN st /\ st[i].revoked_at = NullDate

RevokedEvents(log, i) ==
  {k \in 1..Len(log) : log[k] = Event(REVOKED, i)}
CreatedEvents(log, i) ==
  {k \in 1..Len(log) : log[k] = Event(CREATED, i)}

\* what a read of the store gave
NoRow(rows) == rows = << >>
ActiveRow(rows) == rows # << >> /\ rows[1].revoked_at = NullDate
RevokedRow(rows) == rows # << >> /\ rows[1].revoked_at # NullDate

\* the steps of a call, told by what they change
RevokeReads(p) == pc[p] = "idle" /\ pc'[p] = "r_check"
RevokeProceeds(p) == pc[p] = "r_check" /\ pc'[p] = "r_emit"
RevokeThrows(p) == pc[p] = "r_check" /\ pc'[p] = "idle"
RevokeCommits(p) == pc[p] = "r_commit" /\ pc'[p] = "idle" /\ ret'.kind = OK
CreateCommits(p) == pc[p] = "c_commit" /\ pc'[p] = "idle" /\ ret'.kind = OK
LookupPcs == {"q_return", "v_return", "r_check"}
ReadOnlyPcs == {"q_return", "v_return", "l_return"}

\* C1: once the persisted revoked_at of a row is non-null, it is non-null
\* after every step of every interleaving of the five operations.
C1_RevokedAtNeverReverts ==
  [][\A i \in Ids : Revoked(store, i) => Revoked(store', i)]_vars

\* a row revoked twice over: a second revoke committed over the first
C1_Witness ==
  \E i \in Ids : Revoked(store, i) /\ Cardinality(RevokedEvents(events, i)) = 2

\* C2: revoke(id, revokerId) whose read finds the row active does not throw
\* NotFound or NotAllowed, and when its work commits the persisted row has
\* revoked_at non-null and revoked_by = revokerId and the event
\* publishable_api_key.revoked with payload id is emitted.
C2_RevokeActive ==
  [][\A p \in Procs :
       /\ RevokeReads(p) /\ Active(store, argId'[p])
            => ActiveRow(got'[p].list)
       /\ RevokeThrows(p) /\ ActiveRow(got[p].list)
            => ret'.op = "revoke" /\ ret'.kind = STORE_FAILURE
       /\ RevokeCommits(p) =>
            /\ Revoked(store', argId[p])
            /\ store'[argId[p]].revoked_by = argUser[p]
            /\ events' = Append(events, Event(REVOKED, argId[p]))
            /\ ret' = Return("revoke", argId[p], argUser[p], OK, NoKey,
                             FALSE, << >>, 0)]_vars

\* a revoke by u2 of a row created by u1 has returned
C2_Witness ==
  /\ ret.op = "revoke" /\ ret.kind = OK /\ ret.user = "u2"
  /\ Revoked(store, ret.id) /\ store[ret.id].created_by = "u1"
  /\ store[ret.id].revoked_by = "u2"
  /\ RevokedEvents(events, ret.id) # {}

\* C3: revoke(id, revokerId) whose read finds the row revoked throws
\* NotAllowed (or the store's rejection of the read), never goes on to
\* write, and leaves every row (revoked_at and revoked_by of that row
\* included) and the event log as they were.
C3_RevokeRevoked ==
  [][\A p \in Procs :
       /\ RevokeReads(p) /\ Revoked(store, argId'[p])
            => RevokedRow(got'[p].list) /\ got'[p].list[1] = store[argId'[p]]
       /\ pc[p] = "r_check" /\ RevokedRow(got[p].list) /\ pc'[p] # pc[p]
            => /\ RevokeThrows(p)
               /\ ret'.op = "revoke" /\ ret'.id = argId[p]
               /\ ret'.kind \in {NOT_ALLOWED, STORE_FAILURE}
               /\ store' = store
               /\ events' = events
               /\ txWrites[p] = {}
               /\ txEvents[p] = << >>
       /\ RevokeThrows(p) /\ ret'.kind = NOT_ALLOWED
            => RevokedRow(got[p].list)]_vars

\* revoke by another principal than the revoker was refused
C3_Witness ==
  /\ ret.op = "revoke" /\ ret.kind = NOT_ALLOWED
  /\ Revoked(store, ret.id) /\ store[ret.id].revoked_by # ret.user
  /\ Cardinality(DOMAIN store) = 2

\* C4: in every state, a revoked event for id is in the published log if
\* and only if the persisted row id is revoked; in particular a revoke
\* that failed in save, emit or commit left neither.
C4_RevokeAtomic ==
  \A i \in Ids : RevokedEvents(events, i) # {} <=> Revoked(store, i)

\* a revoke failed on an active row while another row is revoked
C4_Witness ==
  /\ ret.op = "revoke" /\ ret.kind = STORE_FAILURE
  /\ Active(store, ret.id) /\ RevokedEvents(events, ret.id) = {}
  /\ \E i \in Ids : Revoked(store, i) /\ RevokedEvents(events, i) # {}

\* C5: create(creatorId) persists exactly one new row and emits exactly
\* one publishable_api_key.created event in the same commit, and the id in
\* the payload of that event is the id of the persisted row create returns.
C5_CreatedEventCarriesId ==
  [][\A p \in Procs :
       CreateCommits(p) =>
         /\ ret'.key.id \notin DOMAIN store
         /\ DOMAIN store' = DOMAIN store \cup {ret'.key.id}
         /\ store'[ret'.key.id] = ret'.key
         /\ events' = Append(events, Event(CREATED, ret'.key.id))]_vars

\* C6: when create(creatorId) returns id, a retrieve(id) that reads the
\* store of that moment yields the row with created_by = creatorId,
\* revoked_at = null, revoked_by = null; id is the id of no earlier row, and
\* the earlier rows are all still there.
C6_CreateThenRetrieve ==
  [][\A p \in Procs :
       CreateCommits(p) =>
         /\ ret'.op = "create" /\ ret'.key.id \in Ids
         /\ ret'.key.id \notin DOMAIN store
         /\ \A i \in DOMAIN store : i \in DOMAIN store' /\ store'[i] = store[i]
         /\ retrieve_(FindOne(store', ret'.key.id)) =
              [kind |-> OK,
               key |-> Entity(ret'.key.id, argUser[p], NullDate, NullUser)]]_vars

\* two creates by different principals have returned, the second just now
C6_Witness ==
  /\ ret.op = "create" /\ ret.kind = OK
  /\ Cardinality(DOMAIN store) = 2
  /\ \E i \in DOMAIN store : store[i].created_by # ret.key.created_by
  /\ ret.key.id \in DOMAIN store /\ store[ret.key.id] = ret.key

\* C7: retrieve(id), isValid(id) and revoke(id, _) whose read finds no row
\* for id throw NotFound (or the store's rejection of the read), change no
\* row, have opened no write and emitted no event; revoke never goes on to
\* its mutation for such an id.
C7_NotFound ==
  [][\A p \in Procs :
       /\ pc[p] = "idle" /\ pc'[p] \in LookupPcs /\ argId'[p] \notin DOMAIN store
            => NoRow(got'[p].list)
       /\ pc[p] \in LookupPcs /\ NoRow(got[p].list) /\ pc'[p] # pc[p]
            => /\ pc'[p] = "idle"
               /\ ret'.op = OpOf(p) /\ ret'.id = argId[p]
               /\ ret'.kind \in {NOT_FOUND, STORE_FAILURE}
               /\ store' = store
               /\ events' = events
               /\ txWrites[p] = {}
               /\ txEvents[p] = << >>
       /\ RevokeProceeds(p) => ~NoRow(got[p].list)]_vars

\* a lookup of an absent id was refused while another row exists
C7_Witness ==
  /\ ret.op \in {"retrieve", "isValid", "revoke"} /\ ret.kind = NOT_FOUND
  /\ ret.id \notin DOMAIN store /\ DOMAIN store # {}

\* C8: isValid(id) on an existing row returns true if and only if the row
\* is active (revoked_at is null) when isValid reads it; a row it reports
\* as revoked is revoked, and it answers false when called after a revoke
\* of the row has committed.
C8_IsValid ==
  [][\A p \in Procs :
       /\ pc[p] = "idle" /\ pc'[p] = "v_return" /\ argId'[p] \in DOMAIN store
            => got'[p].list = <<store[argId'[p]]>>
       /\ pc[p] = "v_return" /\ pc'[p] = "idle" /\ ret'.kind # STORE_FAILURE
            /\ ~NoRow(got[p].list)
            => /\ ret'.op = "isValid" /\ ret'.id = argId[p]
               /\ ret'.kind = OK
               /\ ret'.valid <=> ActiveRow(got[p].list)
               /\ ~ret'.valid => Revoked(store', argId[p])
       /\ pc[p] = "idle" /\ pc'[p] = "v_return" /\ Revoked(store, argId'[p])
            => RevokedRow(got'[p].list)]_vars

\* isValid answered false for a revoked row
C8_Witness ==
  /\ ret.op = "isValid" /\ ret.kind = OK /\ ~ret.valid
  /\ Revoked(store, ret.id)

\* C9: a row, once in the store, stays in the store; a retrieve that reads
\* the store from then on finds it, and does not throw NotFound.
C9_NeverRemoved ==
  [][/\ \A i \in DOMAIN store :
          i \in DOMAIN store' /\ retrieve_(FindOne(store', i)).kind = OK
     /\ \A p \in Procs :
          /\ pc[p] = "idle" /\ pc'[p] = "q_return"
               /\ argId'[p] \in DOMAIN store
               => got'[p].list = <<store[argId'[p]]>>
          /\ pc[p] = "q_return" /\ pc'[p] = "idle" /\ ~NoRow(got[p].list)
               => /\ ret'.op = "retrieve"
                  /\ ret'.kind \in {OK, STORE_FAILURE}
                  /\ ret'.kind = OK => ret'.key = got[p].list[1]]_vars

\* a retrieve of a revoked row has succeeded
C9_Witness ==
  /\ ret.op = "retrieve" /\ ret.kind = OK
  /\ Revoked(store, ret.id) /\ ret.key = store[ret.id]

\* C10: listAndCount(filter) with the default pagination returns at most
\* 20 rows, all of them rows of the store it read that match the filter
\* and no row twice, and a count equal to the number of rows of that store
\* matching the filter, which is at least the number of rows returned.
C10_ListAndCount ==
  [][\A p \in Procs :
       /\ pc[p] = "idle" /\ pc'[p] = "l_return" =>
            LET sel == SelectorOf(argUser'[p])
                matching == {i \in DOMAIN store : Matches(store[i], sel)}
                list == got'[p].list
            IN /\ Len(list) <= 20
               /\ \A k \in 1..Len(list) :
                    /\ list[k].id \in matching
                    /\ list[k] = store[list[k].id]
               /\ \A j, k \in 1..Len(list) : list[j].id = list[k].id => j = k
               /\ got'[p].count = Cardinality(matching)
               /\ got'[p].count >= Len(list)
       /\ pc[p] = "l_return" /\ pc'[p] = "idle" /\ ret'.kind # STORE_FAILURE
            => /\ ret'.op = "listAndCount" /\ ret'.kind = OK
               /\ ret'.user = argUser[p]
               /\ ret'.list = got[p].list
               /\ ret'.count = got[p].count
               /\ Len(ret'.list) <= 20
               /\ ret'.count >= Len(ret'.list)
               /\ \A k \in 1..Len(ret'.list) :
                    Matches(ret'.list[k], SelectorOf(ret'.user))]_vars

\* a full page out of more than 20 matching rows, one of them created
\* since the start
C10_Witness ==
  /\ ret.op = "listAndCount" /\ ret.kind = OK /\ ret.user = NullUser
  /\ Len(ret.list) = 20 /\ ret.count > 20
  /\ \E k \in 1..Len(ret.list) : ret.list[k].id \in Ids

\* C11: the already-revoked check of revoke is made on the committed row
\* the call read, so a revoke is refused only for a row whose revocation
\* is committed; a revoke that commits over a row another revoke has
\* revoked meanwhile succeeds, emits a second revoked event for the id,
\* and leaves the persisted revoked_by / revoked_at as its own (the last
\* save wins).
C11_ConcurrentRevokes ==
  [][\A p \in Procs :
       /\ RevokeReads(p) => got'[p].list = FindOne(store, argId'[p])
       /\ RevokeThrows(p) /\ ret'.kind = NOT_ALLOWED
            => Revoked(store, argId[p])
       /\ RevokeCommits(p) /\ Revoked(store, argId[p]) =>
            /\ ret'.op = "revoke" /\ ret'.kind = OK
            /\ store'[argId[p]].revoked_by = argUser[p]
            /\ store'[argId[p]].revoked_at = pubKey[p].revoked_at
            /\ events' = Append(events, Event(REVOKED, argId[p]))
            /\ Cardinality(RevokedEvents(events', argId[p])) >= 2]_vars

\* two revokes of one id have both returned; the one that took the earlier
\* date saved last, and its date and revoker are the persisted ones
C11_Witness ==
  /\ ret.op = "revoke" /\ ret.kind = OK
  /\ Cardinality(RevokedEvents(events, ret.id)) = 2
  /\ now = 2
  /\ store[ret.id].revoked_at = 1 /\ store[ret.id].revoked_by = ret.user

\* C12: the revoked_at / revoked_by of a row, once set, never change value
\* again, and at most one revoked event is ever emitted for an id.
C12_RevokedOnce ==
  [][\A i \in Ids :
       /\ Revoked(store, i) =>
            /\ Revoked(store', i)
            /\ store'[i].revoked_at = store[i].revoked_at
            /\ store'[i].revoked_by = store[i].revoked_by
       /\ Cardinality(RevokedEvents(events', i)) <= 1]_vars

\* C13: in every persisted row revoked_at is null if and only if
\* revoked_by is null, so the test of isValid (revoked_by is null) and the
\* test of revoke (revoked_at is set) are the negation of each other.
C13_RevokedFieldsTogether ==
  \A i \in DOMAIN store :
    /\ store[i].revoked_at = NullDate <=> store[i].revoked_by = NullUser
    /\ IsActive(store[i]) <=> ~AlreadyRevoked(store[i])

\* an active row next to a revoked row
C13_Witness ==
  /\ \E i \in DOMAIN store :
       store[i].revoked_at # NullDate /\ store[i].revoked_by # NullUser
  /\ \E i \in DOMAIN store :
       store[i].revoked_at = NullDate /\ store[i].revoked_by = NullUser

\* C14: retrieve, listAndCount and isValid change no row and no event;
\* rows and events change only when a create or a revoke commits; a create
\* leaves every earlier row as it was; a revoke of id leaves every other
\* row as it was, adds and removes no row, and keeps id and created_by of
\* the row it revokes; a row goes from active to revoked only in the
\* commit of a revoke of its id.
C14_Frame ==
  [][/\ \A p \in Procs :
          (pc[p] \in ReadOnlyPcs \/ pc'[p] \in ReadOnlyPcs) /\ pc'[p] # pc[p]
            => /\ store' = store /\ events' = events
               /\ txWrites[p] = {} /\ txWrites'[p] = {}
               /\ txEvents[p] = << >> /\ txEvents'[p] = << >>
     /\ (store' # store \/ events' # events)
          => \E p \in Procs : CreateCommits(p) \/ RevokeCommits(p)
     /\ \A p \in Procs :
          CreateCommits(p) =>
            \A i \in DOMAIN store : i \in DOMAIN store' /\ store'[i] = store[i]
     /\ \A p \in Procs :
          RevokeCommits(p) =>
            /\ DOMAIN store' = DOMAIN store
            /\ \A i \in DOMAIN store \ {argId[p]} : store'[i] = store[i]
            /\ argId[p] \in DOMAIN store
            /\ store'[argId[p]].id = store[argId[p]].id
            /\ store'[argId[p]].created_by = store[argId[p]].created_by
     /\ \A i \in Ids :
          Active(store, i) /\ Revoked(store', i)
            => \E p \in Procs : RevokeCommits(p) /\ argId[p] = i]_vars

\* a revoke by u2 has returned: it left the other row, created by u1,
\* active, and the row it revoked still names its creator u1
C14_Witness ==
  /\ ret.op = "revoke" /\ ret.kind = OK /\ ret.user = "u2"
  /\ Revoked(store, ret.id) /\ store[ret.id].created_by = "u1"
  /\ \E i \in DOMAIN store \ {ret.id} :
       Active(store, i) /\ store[i].created_by = "u1"

\* C15: in the published log every revoked event for an id comes after a
\* created event with that id, and the id of every event is the id of a
\* stored row.
C15_EventHistory ==
  \A k \in 1..Len(events) :
    /\ events[k].id \in DOMAIN store
    /\ events[k].name = REVOKED
         => \E j \in 1..(k - 1) : events[j] = Event(CREATED, events[k].id)

TypeOK ==
  /\ \A i \in DOMAIN store : store[i].id = i
  /\ now \in 1..MaxClock
  /\ calls \in 0..MaxCalls
====
